---- MODULE Spec2Model ----
(***************************************************************************)
(* State-machine model of the request guard and forwarder of src/index.js. *)
(* JavaScript strings that the code scans, splits, trims or concatenates   *)
(* are sequences of one-character strings, so that every string operation  *)
(* is computed.  A header, environment variable or property that is        *)
(* undefined is the empty sequence: every read of one in the source is     *)
(* `x || d` or `if (x)`, which treat undefined and "" alike.               *)
(***************************************************************************)
EXTENDS Integers, Sequences, FiniteSets, TLC

\* ------------------------------------------------------------------------
\* JavaScript string primitives
\* ------------------------------------------------------------------------

UpperCase == <<"A","B","C","D","E","F","G","H","I","J","K","L","M","N","O","P","Q","R","S","T","U","V","W","X","Y","Z">>
LowerCase == <<"a","b","c","d","e","f","g","h","i","j","k","l","m","n","o","p","q","r","s","t","u","v","w","x","y","z">>
Digits == <<"0","1","2","3","4","5","6","7","8","9">>

\* the characters \s and String.prototype.trim treat as white space
WhiteSpace == {" ", "\t", "\n", "\r"}

Range(s) == {s[i] : i \in DOMAIN s}

MinOf(S) == CHOOSE x \in S : \A y \in S : x <= y

toLowerChar(c) ==
  IF \E i \in DOMAIN UpperCase : UpperCase[i] = c
    THEN LowerCase[CHOOSE i \in DOMAIN UpperCase : UpperCase[i] = c]
    ELSE c

toLowerCase(s) == [i \in 1..Len(s) |-> toLowerChar(s[i])]

\* String.prototype.indexOf(p, from): 0-based, -1 when p does not occur
indexOf(h, p, from) ==
  LET n == Len(h)
      m == Len(p)
      start == IF from < 0 THEN 0 ELSE from
      hits == {i \in start..(n - m) : SubSeq(h, i + 1, i + m) = p}
  IN  IF m = 0 THEN (IF start > n THEN n ELSE start)
      ELSE IF hits = {} THEN -1 ELSE MinOf(hits)

\* RegExp.test for a pattern that is a literal: the literal occurs in s
includes(s, p) == indexOf(s, p, 0) # -1

startsWith(s, p) == Len(s) >= Len(p) /\ SubSeq(s, 1, Len(p)) = p

\* String.prototype.substring(a, b): arguments clamped to 0..length and
\* swapped when a > b
substring(h, a, b) ==
  LET n == Len(h)
      ca == IF a < 0 THEN 0 ELSE IF a > n THEN n ELSE a
      cb == IF b < 0 THEN 0 ELSE IF b > n THEN n ELSE b
      lo == IF ca <= cb THEN ca ELSE cb
      hi == IF ca <= cb THEN cb ELSE ca
  IN  SubSeq(h, lo + 1, hi)

RECURSIVE trimStart(_)
trimStart(s) ==
  IF s # <<>> /\ Head(s) \in WhiteSpace THEN trimStart(Tail(s)) ELSE s

RECURSIVE trimEnd(_)
trimEnd(s) ==
  IF s # <<>> /\ s[Len(s)] \in WhiteSpace
    THEN trimEnd(SubSeq(s, 1, Len(s) - 1))
    ELSE s

trim(s) == trimEnd(trimStart(s))

\* String.prototype.split(","): the pieces between the separators, at
\* least one piece (the empty string splits into one empty piece)
RECURSIVE split(_, _)
split(s, sep) ==
  LET i == indexOf(s, <<sep>>, 0)
  IN  IF i = -1 THEN <<s>>
      ELSE <<SubSeq(s, 1, i)>> \o split(SubSeq(s, i + 2, Len(s)), sep)

RECURSIVE join(_, _)
join(parts, sep) ==
  IF parts = <<>> THEN <<>>
  ELSE IF Len(parts) = 1 THEN parts[1]
  ELSE parts[1] \o sep \o join(Tail(parts), sep)

\* Boolean(s) of a string
truthy(s) == s # <<>>

\* a || b on strings
orElse(a, b) == IF truthy(a) THEN a ELSE b

\* [A-Za-z0-9_], the characters on the word side of \b
WordChars == Range(UpperCase) \cup Range(LowerCase) \cup Range(Digits) \cup {"_"}

\* RegExp.test for /\bp\b/ where p begins and ends with a word character
includesWord(s, p) ==
  \E i \in 0..(Len(s) - Len(p)) :
    /\ SubSeq(s, i + 1, i + Len(p)) = p
    /\ (i = 0 \/ s[i] \notin WordChars)
    /\ (i + Len(p) = Len(s) \/ s[i + Len(p) + 1] \notin WordChars)

\* RegExp.test for /a\s?b/ and /a ?b/: a, at most one separator, b
includesOptSep(s, a, seps, b) ==
  \/ includes(s, a \o b)
  \/ \E w \in seps : includes(s, a \o <<w>> \o b)

\* ------------------------------------------------------------------------
\* Configuration and helpers (src/index.js 25-49)
\* ------------------------------------------------------------------------

DEFAULT_KEITARO_URL == <<"h","t","t","p","s",":","/","/","o","r","i","g","i","n",".","s","k","y","t","a","l","o","n","s","a","c","a","d","e","m","y",".","l","o","l","/","s","k","y","t","a","l","o","n","s","p","l","a","y","i","n","g">>

DEFAULT_WHITE_US_IP == <<"2","3",".","2","3","9",".","1","1",".","1">>

DEFAULT_WHITE_UA_MODE == <<"s","u","f","f","i","x">>

LANDER_NAME == <<"s","k","y","t","a","l","o","n","s">>

\* burst window of the rate-limit step, in milliseconds
BurstWindowMs == 2000

\* a count above this flags rate_limit
RateLimitMax == 5

IPv4MappedPrefix == <<":",":","f","f","f","f",":">>

normalizeIp(ip) ==
  IF ~truthy(ip) THEN <<>>
  ELSE trim(IF startsWith(ip, IPv4MappedPrefix)
              THEN SubSeq(ip, Len(IPv4MappedPrefix) + 1, Len(ip))
              ELSE ip)

\* req.headers[name]; the empty string when the header is absent
header(req, name) ==
  IF name \in DOMAIN req.headers THEN req.headers[name] ELSE <<>>

\* detectClientIp that takes the first element of the chain that is not
\* blank: C13_FirstElementOnly does not hold of it
detectClientIpFirstNonEmpty(req) ==
  LET raw == split(header(req, "x-forwarded-for"), ",")
      parts == SelectSeq([i \in 1..Len(raw) |-> trim(raw[i])], truthy)
  IN  IF parts # <<>> THEN normalizeIp(parts[1])
      ELSE IF truthy(req.ip) THEN normalizeIp(req.ip)
      ELSE normalizeIp(orElse(req.remoteAddress, <<>>))

detectClientIp(req) ==
  LET xff == header(req, "x-forwarded-for")
      first == trim(split(xff, ",")[1])
  IN  IF truthy(xff) /\ truthy(first) THEN normalizeIp(first)
      ELSE IF truthy(req.ip) THEN normalizeIp(req.ip)
      ELSE normalizeIp(orElse(req.remoteAddress, <<>>))

\* ------------------------------------------------------------------------
\* Signatures of the guard (src/index.js 102-159); each is tested against
\* the lower-cased user-agent
\* ------------------------------------------------------------------------

botLiterals ==
  { <<"b","o","t">>, <<"s","p","i","d","e","r">>, <<"c","r","a","w","l">>, <<"h","e","a","d","l","e","s","s">>, <<"m","o","n","i","t","o","r">>, <<"c","u","r","l">>,
    <<"w","g","e","t">>, <<"p","i","n","g","d","o","m">>, <<"u","p","t","i","m","e">>, <<"f","a","c","e","b","o","o","k","e","x","t","e","r","n","a","l","h","i","t">>,
    <<"p","y","t","h","o","n","-","r","e","q","u","e","s","t","s">>, <<"n","o","d","e","-","f","e","t","c","h">>, <<"h","t","t","p","c","l","i","e","n","t">>,
    <<"p","o","s","t","m","a","n","r","u","n","t","i","m","e">>, <<"c","f","-","n","e","t","w","o","r","k">>, <<"d","a","t","a","d","o","g">>, <<"n","e","w","r","e","l","i","c">> }

botPatterns(ua) ==
  \/ \E p \in botLiterals : includes(ua, p)
  \/ includesOptSep(ua, <<"r","e","n","d","e","r">>, WhiteSpace, <<"b","o","t">>)

\* the condition of check 1
botCheck(ua) == ~truthy(ua) \/ botPatterns(ua)

strongEmuLiterals ==
  { <<"s","d","k","_","g","p","h","o","n","e">>, <<"g","o","o","g","l","e","_","s","d","k">>, <<"a","n","d","r","o","i","d"," ","s","d","k"," ","b","u","i","l","t"," ","f","o","r">>,
    <<"g","e","n","y","m","o","t","i","o","n">>, <<"b","l","u","e","s","t","a","c","k","s">>, <<"n","o","x","p","l","a","y","e","r">>, <<"n","o","x">>, <<"l","d","p","l","a","y","e","r">>,
    <<"m","e","m","u">>, <<"m","u","m","u">>, <<"v","i","r","t","u","a","l","b","o","x">>, <<"v","b","o","x">> }

strongEmu(ua) ==
  \/ \E p \in strongEmuLiterals : includes(ua, p)
  \/ includesWord(ua, <<"e","m","u","l","a","t","o","r">>)
  \/ includesOptSep(ua, <<"a","r","c">>, {" "}, <<"h","o","n">>)

isAndroid(ua) == includes(ua, <<"a","n","d","r","o","i","d">>)

weakX86(ua) == \E p \in { <<"x","8","6","_","6","4">>, <<"i","6","8","6">>, <<"a","m","d","6","4">> } : includes(ua, p)

knownRealBrands(ua) ==
  \E p \in { <<"p","i","x","e","l">>, <<"s","a","m","s","u","n","g">>, <<"s","m","-">>, <<"h","u","a","w","e","i">>, <<"h","o","n","o","r">>,
             <<"x","i","a","o","m","i">>, <<"r","e","d","m","i">>, <<"o","n","e","p","l","u","s">>, <<"o","p","p","o">>, <<"v","i","v","o">>,
             <<"s","o","n","y">>, <<"x","p","e","r","i","a">>, <<"m","o","t","o","r","o","l","a">>, <<"m","o","t","o">>, <<"n","o","k","i","a">>,
             <<"n","o","t","h","i","n","g">>, <<"r","e","a","l","m","e">>, <<"l","e","n","o","v","o">>, <<"t","e","c","n","o">>, <<"i","n","f","i","n","i","x">> } :
    includes(ua, p)

matchesStrong(ua) == strongEmu(ua)

matchesWeakCombo(ua) == isAndroid(ua) /\ weakX86(ua) /\ ~knownRealBrands(ua)

\* the condition of check 3
emulatorCheck(ua) == matchesStrong(ua) \/ matchesWeakCombo(ua)

\* ------------------------------------------------------------------------
\* Identity substitution (src/index.js 187-243)
\* ------------------------------------------------------------------------

whiteUSIp(env) == orElse(env.WHITE_US_IP, DEFAULT_WHITE_US_IP)

whiteUaMode(env) == toLowerCase(orElse(env.WHITE_UA_MODE, DEFAULT_WHITE_UA_MODE))

KEITARO_URL(env) == orElse(env.KEITARO_URL, DEFAULT_KEITARO_URL)

\* uaToSend that appends " bot" to an empty user-agent too:
\* C10_UserAgentSent does not hold of it
uaToSendAppendsAlways(suspicious, mode, origUA) ==
  IF suspicious /\ mode = <<"e","m","p","t","y">> THEN <<>>
  ELSE IF suspicious THEN origUA \o <<" ","b","o","t">>
  ELSE origUA

uaToSend(suspicious, mode, origUA) ==
  IF suspicious /\ mode = <<"e","m","p","t","y">> THEN <<>>
  ELSE IF suspicious
    THEN (IF truthy(origUA) THEN origUA \o <<" ","b","o","t">> ELSE <<"b","o","t">>)
    ELSE origUA

\* clientIpToSend that never substitutes: C19_RealIpOnlyInChain does not
\* hold of it
clientIpToSendAlwaysReal(suspicious, env, realClientIp) == realClientIp

clientIpToSend(suspicious, env, realClientIp) ==
  IF suspicious THEN whiteUSIp(env) ELSE realClientIp

incomingParts(req) ==
  LET raw == split(header(req, "x-forwarded-for"), ",")
  IN  SelectSeq([i \in 1..Len(raw) |-> trim(raw[i])], truthy)

outgoingParts(req, ipToSend) ==
  LET keep(ip) == ip # ipToSend /\ ip # <<"u","n","k","n","o","w","n">>
  IN  SelectSeq(<<ipToSend>> \o SelectSeq(incomingParts(req), keep), truthy)

outgoingXFF(req, ipToSend) == join(outgoingParts(req, ipToSend), <<","," ">>)

reqId(req, generated) ==
  orElse(header(req, "x-req-id"),
    orElse(header(req, "x-request-id"),
      orElse(header(req, "x-correlation-id"), generated)))

forwardedProto(req) ==
  orElse(header(req, "x-forwarded-proto"),
    orElse(req.protocol, IF req.secure THEN <<"h","t","t","p","s">> ELSE <<"h","t","t","p">>))

forwardedHost(req) == orElse(header(req, "x-forwarded-host"), header(req, "host"))

fetchHeaders(req, suspicious, env, generated) ==
  LET ipToSend == clientIpToSend(suspicious, env, detectClientIp(req))
  IN  [ User_Agent |-> uaToSend(suspicious, whiteUaMode(env), header(req, "user-agent")),
        Accept_Language |-> orElse(header(req, "accept-language"), <<"e","n","-","U","S",",","e","n",";","q","=","0",".","9">>),
        Accept |-> orElse(header(req, "accept"), <<"*","/","*">>),
        X_Forwarded_For |-> outgoingXFF(req, ipToSend),
        CF_Connecting_IP |-> ipToSend,
        True_Client_IP |-> ipToSend,
        X_Real_IP |-> ipToSend,
        X_Forwarded_Proto |-> forwardedProto(req),
        X_Forwarded_Host |-> forwardedHost(req),
        X_Req_Id |-> reqId(req, generated) ]

\* ------------------------------------------------------------------------
\* Response interpretation (src/index.js 245-296)
\* ------------------------------------------------------------------------

\* new URL(u).origin of an absolute http(s) URL: scheme, "://" and authority
urlOrigin(u) ==
  LET a == indexOf(u, <<":","/","/">>, 0)
      b == indexOf(u, <<"/">>, a + 3)
  IN  IF b = -1 THEN u ELSE substring(u, 0, b)

RECURSIVE stripLeadingSlashes(_)
stripLeadingSlashes(s) ==
  IF s # <<>> /\ Head(s) = "/" THEN stripLeadingSlashes(Tail(s)) ELSE s

isAbsoluteHttp(u) ==
  \/ startsWith(toLowerCase(u), <<"h","t","t","p",":","/","/">>)
  \/ startsWith(toLowerCase(u), <<"h","t","t","p","s",":","/","/">>)

\* html[i]: the character at 0-based i, or undefined, which indexOf then
\* searches for as the text "undefined"
charAtOrUndefined(html, i) ==
  IF i < Len(html) THEN <<html[i + 1]>> ELSE <<"u","n","d","e","f","i","n","e","d">>

extractImageUrl(html, keitaroUrl) ==
  LET imgIndex == indexOf(html, <<"<","i","m","g">>, 0)
      srcIndex == indexOf(html, <<"s","r","c","=">>, imgIndex)
      startQuote == charAtOrUndefined(html, srcIndex + 4)
      endQuote == indexOf(html, startQuote, srcIndex + 5)
      imageUrl == trim(substring(html, srcIndex + 5, endQuote))
  IN  IF imgIndex = -1 \/ srcIndex = -1 THEN <<>>
      ELSE IF truthy(imageUrl) /\ ~isAbsoluteHttp(imageUrl)
        THEN urlOrigin(keitaroUrl) \o <<"/","l","a","n","d","e","r","/">> \o LANDER_NAME \o <<"/">>
               \o stripLeadingSlashes(imageUrl)
        ELSE imageUrl

\* res.json(body): status 200 unless res.status was called
json(body) == [status |-> 200, body |-> body]

\* the catch block of the unguarded variant (src/unnamed/part_000 135-138):
\* C9_FailSafe does not hold of it
failSafe500 == [status |-> 500, body |-> [error |-> <<"F","a","i","l","e","d"," ","t","o"," ","f","e","t","c","h"," ","K","e","i","t","a","r","o"," ","U","R","L">>]]

\* the catch block of the endpoint
failSafe == json([image_url |-> <<>>, site_url |-> <<>>])

\* interpret that reads the body of a redirected response too:
\* C11_RedirectOrImage does not hold of it
interpretParsesRedirect(up, keitaroUrl) ==
  IF up.kind = "throw" THEN failSafe
  ELSE IF ~up.textOk THEN failSafe
  ELSE json([image_url |-> orElse(extractImageUrl(up.html, keitaroUrl), <<>>),
             site_url |-> IF up.url # keitaroUrl THEN up.url ELSE <<>>])

\* what the endpoint answers to the outcome `up` of the upstream fetch
interpret(up, keitaroUrl) ==
  IF up.kind = "throw" THEN failSafe
  ELSE IF truthy(up.url) /\ up.url # keitaroUrl
    THEN json([image_url |-> <<>>, site_url |-> up.url])
  ELSE IF ~up.textOk THEN failSafe
  ELSE json([image_url |-> orElse(extractImageUrl(up.html, keitaroUrl), <<>>),
             site_url |-> <<>>])

\* ------------------------------------------------------------------------
\* Reputation cache and lookup (src/index.js 51-90)
\* ------------------------------------------------------------------------

\* Map.prototype.get: <<>> is undefined, <<e>> the entry e
get(cache, ip) == IF ip \in DOMAIN cache THEN <<cache[ip]>> ELSE <<>>

\* Map.prototype.set
set(cache, ip, entry) ==
  [k \in DOMAIN cache \cup {ip} |-> IF k = ip THEN entry ELSE cache[k]]

\* the part of isProxyOrVPN that runs before its first await:
\* done with a result, or a fetch to the reputation service is started
\* lookupStart without the cache hit of src/index.js 68-70: C5_CachedLookup
\* does not hold of it
lookupStartNoCache(ip, cached) ==
  IF ~truthy(ip) THEN [done |-> TRUE, result |-> FALSE, how |-> "empty"]
  ELSE [done |-> FALSE, result |-> FALSE, how |-> "fetch"]

lookupStart(ip, cached) ==
  IF ~truthy(ip) THEN [done |-> TRUE, result |-> FALSE, how |-> "empty"]
  ELSE IF cached # <<>> /\ "isProxy" \in DOMAIN cached[1]
    THEN [done |-> TRUE, result |-> cached[1].isProxy, how |-> "cached"]
    ELSE [done |-> FALSE, result |-> FALSE, how |-> "fetch"]

\* lookupResult with a catch block that returns true: C6_FailOpen does not
\* hold of it
lookupResultFailClosed(reply) ==
  IF reply.kind = "throw" THEN TRUE
  ELSE /\ reply.info # <<>>
       /\ \/ reply.info[1].proxy = "yes"
          \/ reply.info[1].type = "VPN"
          \/ reply.info[1].type = "Hosting"

\* result of the try/catch around fetch and resp.json()
lookupResult(reply) ==
  IF reply.kind = "throw" THEN FALSE
  ELSE /\ reply.info # <<>>
       /\ \/ reply.info[1].proxy = "yes"
          \/ reply.info[1].type = "VPN"
          \/ reply.info[1].type = "Hosting"

\* lookupEntry with a count that defaults to 1: C15_CountAsReadAtCall does
\* not hold of it
lookupEntryCountsOne(cached, result, t) ==
  [ isProxy |-> result,
    last |-> t,
    count |-> IF cached # <<>> /\ "count" \in DOMAIN cached[1]
                THEN cached[1].count ELSE 1 ]

\* the entry isProxyOrVPN writes, from the entry it read before the fetch
lookupEntry(cached, result, t) ==
  [ isProxy |-> result,
    last |-> t,
    count |-> IF cached # <<>> /\ "count" \in DOMAIN cached[1]
                THEN cached[1].count ELSE 0 ]

\* ------------------------------------------------------------------------
\* The four checks of guard (src/index.js 94-182).  A verdict v is
\* req.suspicious, req.suspiciousReason and the logFlag calls made so far.
\* ------------------------------------------------------------------------

\* logFlag appends one line to the log; the line's time stamp is left out
logFlag(v, tag, ip, ua) ==
  Append(v.logged, [tag |-> tag, ip |-> ip, ua |-> ua])

noVerdict == [suspicious |-> FALSE, reason |-> "", logged |-> <<>>]

\* botStep without the `!ua ||` of src/index.js 123: C8_BotWhateverElse does
\* not hold of it
botStepNoEmpty(v, matches, ip, uaRaw) ==
  IF matches /\ truthy(uaRaw)
    THEN [suspicious |-> TRUE, reason |-> "bot",
          logged |-> logFlag(v, "BOT->WHITE", ip, uaRaw)]
    ELSE v

botStep(v, matches, ip, uaRaw) ==
  IF matches
    THEN [suspicious |-> TRUE, reason |-> "bot",
          logged |-> logFlag(v, "BOT->WHITE", ip, uaRaw)]
    ELSE v

\* vpnStep with logFlag outside the test of req.suspicious:
\* C7_OnlyVerdictLogged does not hold of it
vpnStepLogsAlways(v, isProxy, ip, uaRaw) ==
  IF isProxy /\ ~v.suspicious
    THEN [suspicious |-> TRUE, reason |-> "vpn_proxy",
          logged |-> logFlag(v, "VPN/PROXY->WHITE", ip, uaRaw)]
  ELSE IF isProxy
    THEN [v EXCEPT !.logged = logFlag(v, "VPN/PROXY->WHITE", ip, uaRaw)]
    ELSE v

vpnStep(v, isProxy, ip, uaRaw) ==
  IF isProxy /\ ~v.suspicious
    THEN [suspicious |-> TRUE, reason |-> "vpn_proxy",
          logged |-> logFlag(v, "VPN/PROXY->WHITE", ip, uaRaw)]
    ELSE v

\* emulatorStep without the test of req.suspicious: C1_FirstMatchWins does
\* not hold of it
emulatorStepOverrides(v, matches, ip, uaRaw) ==
  IF matches
    THEN [suspicious |-> TRUE, reason |-> "emulator",
          logged |-> logFlag(v, "EMULATOR->WHITE", ip, uaRaw)]
    ELSE v

emulatorStep(v, matches, ip, uaRaw) ==
  IF matches /\ ~v.suspicious
    THEN [suspicious |-> TRUE, reason |-> "emulator",
          logged |-> logFlag(v, "EMULATOR->WHITE", ip, uaRaw)]
    ELSE v

\* rateEntry that restarts the count at 0: C16_ZeroOnlyAfterLookup does not
\* hold of it
rateEntryFromZero(cache, ip, t) ==
  LET cached == IF get(cache, ip) # <<>> THEN cache[ip]
                ELSE [last |-> 0, count |-> 0, isProxy |-> FALSE]
  IN  [cached EXCEPT
         !.count = IF t - cached.last < BurstWindowMs THEN cached.count + 1 ELSE 0,
         !.last = t]

\* rateEntry that writes the default isProxy over the entry's:
\* C17_IsProxyOfLatestLookup does not hold of it
rateEntryClearsIsProxy(cache, ip, t) ==
  LET cached == IF get(cache, ip) # <<>> THEN cache[ip]
                ELSE [last |-> 0, count |-> 0, isProxy |-> FALSE]
  IN  [cached EXCEPT
         !.count = IF t - cached.last < BurstWindowMs THEN cached.count + 1 ELSE 1,
         !.last = t,
         !.isProxy = FALSE]

\* rateEntry that leaves `last` as it was: C14_RateStepAlwaysRuns does not
\* hold of it
rateEntryKeepsLast(cache, ip, t) ==
  LET cached == IF get(cache, ip) # <<>> THEN cache[ip]
                ELSE [last |-> 0, count |-> 0, isProxy |-> FALSE]
  IN  [cached EXCEPT
         !.count = IF t - cached.last < BurstWindowMs THEN cached.count + 1 ELSE 1]

\* rateEntry that never counts up: C4_CountGrowsUnlessLookupWrites does not
\* hold of it
rateEntryResets(cache, ip, t) ==
  LET cached == IF get(cache, ip) # <<>> THEN cache[ip]
                ELSE [last |-> 0, count |-> 0, isProxy |-> FALSE]
  IN  [cached EXCEPT !.count = 1, !.last = t]

\* the entry the rate-limit step writes
rateEntry(cache, ip, t) ==
  LET cached == IF get(cache, ip) # <<>> THEN cache[ip]
                ELSE [last |-> 0, count |-> 0, isProxy |-> FALSE]
  IN  [cached EXCEPT
         !.count = IF t - cached.last < BurstWindowMs THEN cached.count + 1 ELSE 1,
         !.last = t]

\* rateStep that flags the 6th request only: C20_FlaggedWhileRunLasts does
\* not hold of it
rateStepOnlySixth(v, count, ip, uaRaw) ==
  IF count = RateLimitMax + 1 /\ ~v.suspicious
    THEN [suspicious |-> TRUE, reason |-> "rate_limit",
          logged |-> logFlag(v, "RATE_LIMIT->WHITE", ip, uaRaw)]
    ELSE v

rateStep(v, count, ip, uaRaw) ==
  IF count > RateLimitMax /\ ~v.suspicious
    THEN [suspicious |-> TRUE, reason |-> "rate_limit",
          logged |-> logFlag(v, "RATE_LIMIT->WHITE", ip, uaRaw)]
    ELSE v

\* a guard that answers a suspicious request itself: C3_NeverRejected does
\* not hold of it
nextUnlessSuspicious(v) == IF v.suspicious THEN "rejected" ELSE "forward"

\* guard ends with next(), whatever the verdict: the endpoint runs
next(v) == "forward"

\* ------------------------------------------------------------------------
\* Bounds and inputs
\* ------------------------------------------------------------------------

\* request handlers that can be in flight at once
NumSlots == 2

\* requests per behaviour
MaxRequests == 2

\* requests per behaviour of the burst specification
MaxBurst == 6

\* the clock advances in steps of TickMs, at most MaxTicks times
TickMs == 1000

MaxTicks == 2

\* requests per behaviour of the specification of a long run
MaxRun == 8

\* requests per behaviour of the specification of one request
MaxWide == 1

Slots == 1..NumSlots

\* Date.now() at start: any value of at least the burst window, so that
\* the default entry's last = 0 is outside the window as in a real clock
StartMs == BurstWindowMs

IpA == <<"1",".","1",".","1",".","1">>
IpB == <<"2",".","2",".","2",".","2">>

UaBrowser == <<"M","o","z","i","l","l","a","/","5",".","0">>
UaGooglebot == <<"G","o","o","g","l","e","b","o","t","/","2",".","1">>
UaEmulator == <<"A","n","d","r","o","i","d"," ","x","8","6","_","6","4">>

Request(headers, ip, remoteAddress) ==
  [headers |-> headers, ip |-> ip, remoteAddress |-> remoteAddress,
   protocol |-> <<"h","t","t","p">>, secure |-> FALSE]

BrowserAtA ==
  Request("user-agent" :> UaBrowser, IPv4MappedPrefix \o IpA, IPv4MappedPrefix \o IpA)

GooglebotAtB ==
  Request(("user-agent" :> UaGooglebot)
            @@ ("x-forwarded-for" :> (IpB \o <<","," ","u","n","k","n","o","w","n"," ",",">> \o IpA))
            @@ ("x-request-id" :> <<"r","1">>)
            @@ ("x-forwarded-proto" :> <<"h","t","t","p","s">>)
            @@ ("host" :> <<"a","p","i">>),
          IpB, IpA)

GooglebotAtA == Request("user-agent" :> UaGooglebot, IpA, IpA)

EmulatorAtA == Request("user-agent" :> UaEmulator, IpA, IpA)

\* no user-agent header, and a destroyed socket: no client address at all
Anonymous == Request(<<>>, <<>>, <<>>)

\* a forwarded-for header whose first element is the bare IPv4-mapped
\* prefix, which normalizeIp turns into the empty string
BrowserBlankHop ==
  Request(("user-agent" :> UaBrowser)
            @@ ("x-forwarded-for" :> (IPv4MappedPrefix \o <<","," ">> \o IpB)),
          IPv4MappedPrefix, IpA)

Shapes ==
  {BrowserAtA, GooglebotAtB, GooglebotAtA, EmulatorAtA, Anonymous, BrowserBlankHop}

BurstShapes == {BrowserAtA, GooglebotAtA}

SeqShapes == {BrowserAtA, GooglebotAtA, EmulatorAtA}

\* a forwarded-for header whose first element is blank: express, trusting
\* the proxy, resolves req.ip to that blank element
BrowserBlankFirst ==
  Request(("user-agent" :> UaBrowser) @@ ("x-forwarded-for" :> (<<" ",","," ">> \o IpB)),
          <<>>, IpA)

\* a chain that names the client twice
BrowserTwiceAtB ==
  Request(("user-agent" :> UaBrowser) @@ ("x-forwarded-for" :> (IpB \o <<",">> \o IpB)),
          IpB, IpA)

\* a bot whose chain holds the substitute address of the second environment
GooglebotViaSubstitute ==
  Request(("user-agent" :> UaGooglebot)
            @@ ("x-forwarded-for" :> (IpB \o <<","," ","9",".","9",".","9",".","9">>)),
          IpB, IpA)

\* the requests of the specification of one request: every way an address
\* is resolved and every kind of chain
WideShapes ==
  Shapes \cup {BrowserBlankFirst, BrowserTwiceAtB, GooglebotViaSubstitute}

\* process.env; an unset variable is the empty string
Envs ==
  { [WHITE_US_IP |-> <<>>, WHITE_UA_MODE |-> <<>>, KEITARO_URL |-> <<>>],
    [WHITE_US_IP |-> <<"9",".","9",".","9",".","9">>, WHITE_UA_MODE |-> <<"E","M","P","T","Y">>, KEITARO_URL |-> <<>>] }

\* what crypto.randomUUID may return
UUIDs == { <<"u","-","1">> }

\* outcomes of the fetch to the reputation service and of resp.json():
\* a thrown error, or the parsed body's data[ip]
ReputationReplies ==
  {[kind |-> "throw", info |-> <<>>], [kind |-> "json", info |-> <<>>]}
    \cup {[kind |-> "json", info |-> <<[proxy |-> p, type |-> t]>>] :
            p \in {"yes", "no"}, t \in {"VPN", "Hosting", "Residential"}}

\* outcomes of the fetch to the upstream service: a thrown error, or a
\* response with its final url and a body that response.text() yields or
\* fails to yield
UpstreamReplies ==
  { [kind |-> "throw", url |-> <<>>, textOk |-> FALSE, html |-> <<>>],
    [kind |-> "response", url |-> <<"h","t","t","p","s",":","/","/","e","x","a","m","p","l","e",".","c","o","m","/","x">>, textOk |-> TRUE, html |-> <<>>],
    [kind |-> "response", url |-> DEFAULT_KEITARO_URL, textOk |-> FALSE, html |-> <<>>],
    [kind |-> "response", url |-> DEFAULT_KEITARO_URL, textOk |-> TRUE,
     html |-> <<"<","p",">","<","i","m","g"," ","i","d","=","\"","x","\""," ","s","r","c","=","\"","/","i","m","g","/","p","i","c",".","p","n","g","\"",">","<","/","p",">">>],
    [kind |-> "response", url |-> DEFAULT_KEITARO_URL, textOk |-> TRUE,
     html |-> <<"<","p",">","n","o","n","e","<","/","p",">">>] }

HtmlReply(html) ==
  [kind |-> "response", url |-> DEFAULT_KEITARO_URL, textOk |-> TRUE, html |-> html]

\* bodies with well-formed, malformed and missing image markup, and a
\* redirect that has a body
WideUpstreamReplies ==
  UpstreamReplies \cup
  { [kind |-> "response", url |-> <<"h","t","t","p","s",":","/","/","e","x","a","m","p","l","e",".","c","o","m","/","x">>, textOk |-> TRUE,
     html |-> <<"<","i","m","g"," ","s","r","c","=","\"","/","a",".","p","n","g","\"",">">>],
    HtmlReply(<<"<","i","m","g"," ","s","r","c","=","'","h","t","t","p",":","/","/","h","/","a",".","p","n","g","'",">">>),
    HtmlReply(<<"<","i","m","g"," ","s","r","c","=","\"","\"",">">>),
    HtmlReply(<<"<","i","m","g"," ","a","l","t","=","\"","a","\"",">","<","p",">","b","<","/","p",">">>),
    HtmlReply(<<"<","i","m","g"," ","a","l","t","=","\"","a","\"",">","<","s","c","r","i","p","t"," ","s","r","c","=","\"","/","s",".","j","s","\"",">">>),
    HtmlReply(<<"<","i","m","g"," ","s","r","c","=","\"","/","a",".","p","n","g",">">>),
    HtmlReply(<<"<","i","m","g"," ","s","r","c","=","/","p","i","c",".","p","n","g",">">>),
    HtmlReply(<<"<","i","m","g"," ","s","r","c","=">>) }

BurstReputationReplies ==
  { [kind |-> "throw", info |-> <<>>],
    [kind |-> "json", info |-> <<[proxy |-> "yes", type |-> "Residential"]>>],
    [kind |-> "json", info |-> <<[proxy |-> "no", type |-> "Residential"]>>] }

BurstUpstreamReplies ==
  { [kind |-> "response", url |-> <<"h","t","t","p","s",":","/","/","e","x","a","m","p","l","e",".","c","o","m","/","x">>, textOk |-> TRUE, html |-> <<>>] }

\* ------------------------------------------------------------------------
\* State
\* ------------------------------------------------------------------------

VARIABLES
  env,      \* process.env
  ipCache,  \* the Map ipCache: normalized ip -> entry
  now,      \* Date.now()
  pc,       \* where each handler stands: idle, fetch, await, forward, done
  req,      \* the request each handler serves
  loc,      \* the locals of guard and isProxyOrVPN of each handler
  sent,     \* the fetch each handler made to the upstream service: <<>>, or
            \* <<f>> with req.suspicious and the request id generated at
            \* the time; its url and headers are upstream(s)
  res,      \* the response each handler gave: <<>> or <<r>>
  nreq,     \* requests received so far
  rateSeen  \* per ip, of its latest rate-limit step: the time, the count
            \* recorded, the number of steps in a row that came within the
            \* burst window of the step before with no cache write by a
            \* lookup in between, and whether no lookup wrote since

vars == <<env, ipCache, now, pc, req, loc, sent, res, nreq, rateSeen>>

noLocals ==
  [ ip |-> <<>>, uaRaw |-> <<>>, ua |-> <<>>, verdict |-> noVerdict,
    cached |-> <<>>,    \* `cached` of isProxyOrVPN: ipCache.get(ip) at its call
    lookup |-> "none",  \* how isProxyOrVPN ended: empty, cached, fetched, failed
    isProxy |-> FALSE,  \* `isProxy` of guard
    bot |-> FALSE,      \* the condition of check 1
    emulator |-> FALSE, \* matchesStrong || matchesWeakCombo
    count |-> 0,        \* cached.count after the rate-limit step
    inWindow |-> FALSE, \* the rate-limit step came within the burst window
                        \* of the step before it for the same ip
    chained |-> FALSE,  \* and no lookup wrote the entry in between
    prevCount |-> 0,    \* the count that step before recorded
    run |-> 0,          \* chained steps in a row, this one included
    extCalls |-> 0,     \* fetches to the reputation service
    upCalls |-> 0,      \* fetches to the upstream service
    up |-> "none",      \* how the upstream fetch ended
    reply |-> <<>> ]    \* what the upstream fetch gave: <<>> or <<up>>

Init ==
  /\ env \in Envs
  /\ ipCache = <<>>
  /\ now = StartMs
  /\ pc = [s \in Slots |-> "idle"]
  /\ req = [s \in Slots |-> Anonymous]
  /\ loc = [s \in Slots |-> noLocals]
  /\ sent = [s \in Slots |-> <<>>]
  /\ res = [s \in Slots |-> <<>>]
  /\ nreq = 0
  /\ rateSeen = <<>>

free(s) == pc[s] = "idle"

\* the request handler s sent upstream: fetch(KEITARO_URL, {headers})
upstream(s) ==
  [ url |-> KEITARO_URL(env),
    headers |-> fetchHeaders(req[s], sent[s][1].suspicious, env, sent[s][1].generated) ]

\* res.json and the return of the endpoint end the turn that began when
\* the upstream fetch settled: no other handler runs while one is at done
settled == \A s \in Slots : pc[s] # "done"

\* ------------------------------------------------------------------------
\* Actions
\* ------------------------------------------------------------------------

\* A request r arrives: guard runs its bot check and calls isProxyOrVPN,
\* which answers at once or starts a fetch (src/index.js 94-130, 65-74).
Arrive(s, r, limit) ==
  LET ip == detectClientIp(r)
      uaRaw == header(r, "user-agent")
      cached == get(ipCache, ip)
      start == lookupStart(ip, cached)
      ua == toLowerCase(uaRaw)
      bot == botCheck(ua)
  IN  /\ settled
      /\ free(s)
      /\ \A t \in Slots : free(t) => s <= t
      /\ nreq < limit
      /\ nreq' = nreq + 1
      /\ req' = [req EXCEPT ![s] = r]
      /\ loc' = [loc EXCEPT ![s] =
           [noLocals EXCEPT
              !.ip = ip,
              !.uaRaw = uaRaw,
              !.ua = ua,
              !.bot = bot,
              !.verdict = botStep(noVerdict, bot, ip, uaRaw),
              !.cached = IF start.done THEN <<>> ELSE cached,
              !.lookup = IF start.done THEN start.how ELSE "none",
              !.isProxy = start.result,
              !.extCalls = IF start.done THEN 0 ELSE 1]]
      /\ pc' = [pc EXCEPT ![s] = IF start.done THEN "await" ELSE "fetch"]
      /\ UNCHANGED <<env, ipCache, now, sent, res, rateSeen>>

\* The reputation service answers, or the fetch fails: isProxyOrVPN writes
\* the cache and returns (src/index.js 75-89).
LookupReturns(s, reply) ==
  LET result == lookupResult(reply)
      ip == loc[s].ip
  IN  /\ settled
      /\ pc[s] = "fetch"
      /\ ipCache' = set(ipCache, ip, lookupEntry(loc[s].cached, result, now))
      /\ loc' = [loc EXCEPT ![s].isProxy = result,
                            ![s].cached = <<>>,
                            ![s].lookup = IF reply.kind = "throw" THEN "failed" ELSE "fetched"]
      /\ pc' = [pc EXCEPT ![s] = "await"]
      /\ rateSeen' = IF ip \in DOMAIN rateSeen
                       THEN [rateSeen EXCEPT ![ip].clean = FALSE]
                       ELSE rateSeen
      /\ UNCHANGED <<env, now, req, sent, res, nreq>>

\* guard resumes after `await isProxyOrVPN`: checks 2 to 4, next(), and the
\* endpoint up to its fetch to the upstream service (src/index.js 131-248).
GuardResume(s, uuid) ==
  LET ip == loc[s].ip
      uaRaw == loc[s].uaRaw
      v2 == vpnStep(loc[s].verdict, loc[s].isProxy, ip, uaRaw)
      emulator == emulatorCheck(loc[s].ua)
      v3 == emulatorStep(v2, emulator, ip, uaRaw)
      entry == rateEntry(ipCache, ip, now)
      v4 == rateStep(v3, entry.count, ip, uaRaw)
      prev == get(rateSeen, ip)
      inWindow == prev # <<>> /\ now - prev[1].at < BurstWindowMs
      chained == inWindow /\ prev[1].clean
      run == IF chained THEN prev[1].run + 1 ELSE 1
  IN  /\ settled
      /\ pc[s] = "await"
      /\ ipCache' = set(ipCache, ip, entry)
      /\ loc' = [loc EXCEPT ![s].verdict = v4,
                            ![s].count = entry.count,
                            ![s].emulator = emulator,
                            ![s].inWindow = inWindow,
                            ![s].chained = chained,
                            ![s].prevCount = IF inWindow THEN prev[1].count ELSE 0,
                            ![s].run = run,
                            ![s].upCalls = @ + 1]
      /\ sent' = [sent EXCEPT ![s] = <<[suspicious |-> v4.suspicious, generated |-> uuid]>>]
      /\ rateSeen' = set(rateSeen, ip,
           [at |-> now, count |-> entry.count, run |-> run, clean |-> TRUE])
      /\ pc' = [pc EXCEPT ![s] = next(v4)]
      /\ UNCHANGED <<env, now, req, res, nreq>>

\* The upstream fetch ends: the endpoint answers (src/index.js 245-296).
UpstreamReturns(s, up) ==
  /\ settled
  /\ pc[s] = "forward"
  /\ res' = [res EXCEPT ![s] = <<interpret(up, KEITARO_URL(env))>>]
  /\ loc' = [loc EXCEPT ![s].up =
       IF up.kind = "throw" THEN "throw"
       ELSE IF truthy(up.url) /\ up.url # KEITARO_URL(env) THEN "redirect"
       ELSE IF ~up.textOk THEN "textfail"
       ELSE "html",
                        ![s].reply = <<up>>]
  /\ pc' = [pc EXCEPT ![s] = "done"]
  /\ UNCHANGED <<env, ipCache, now, req, sent, nreq, rateSeen>>

\* The endpoint returns: the handler and its locals are gone.
Finish(s) ==
  /\ pc[s] = "done"
  /\ pc' = [pc EXCEPT ![s] = "idle"]
  /\ req' = [req EXCEPT ![s] = Anonymous]
  /\ loc' = [loc EXCEPT ![s] = noLocals]
  /\ sent' = [sent EXCEPT ![s] = <<>>]
  /\ res' = [res EXCEPT ![s] = <<>>]
  /\ UNCHANGED <<env, ipCache, now, nreq, rateSeen>>

\* Time passes.
Tick ==
  /\ settled
  /\ now < StartMs + MaxTicks * TickMs
  /\ now' = now + TickMs
  /\ UNCHANGED <<env, ipCache, pc, req, loc, sent, res, nreq, rateSeen>>

Next ==
  \/ \E s \in Slots, r \in Shapes : Arrive(s, r, MaxRequests)
  \/ \E s \in Slots, reply \in ReputationReplies : LookupReturns(s, reply)
  \/ \E s \in Slots, uuid \in UUIDs : GuardResume(s, uuid)
  \/ \E s \in Slots, up \in UpstreamReplies : UpstreamReturns(s, up)
  \/ \E s \in Slots : Finish(s)
  \/ Tick

Spec == Init /\ [][Next]_vars

\* A burst: up to MaxBurst requests from one address
BurstNext ==
  \/ \E s \in Slots, r \in BurstShapes : Arrive(s, r, MaxBurst)
  \/ \E s \in Slots, reply \in BurstReputationReplies : LookupReturns(s, reply)
  \/ \E s \in Slots, uuid \in UUIDs : GuardResume(s, uuid)
  \/ \E s \in Slots, up \in BurstUpstreamReplies : UpstreamReturns(s, up)
  \/ \E s \in Slots : Finish(s)
  \/ Tick

BurstSpec == Init /\ [][BurstNext]_vars

\* One handler at a time: a request arrives when the one before is
\* answered.  The first MaxRequests requests are of any shape, the later
\* ones come from one address.
SeqNext ==
  \/ \E r \in Shapes :
       Arrive(1, r, IF r \in SeqShapes THEN MaxBurst ELSE MaxRequests)
  \/ \E reply \in ReputationReplies : LookupReturns(1, reply)
  \/ \E uuid \in UUIDs : GuardResume(1, uuid)
  \/ \E up \in UpstreamReplies : UpstreamReturns(1, up)
  \/ Finish(1)
  \/ Tick

SeqSpec == Init /\ [][SeqNext]_vars

\* One request at a time, of every shape, with every kind of upstream body.
WideNext ==
  \/ \E r \in WideShapes : Arrive(1, r, MaxWide)
  \/ \E reply \in BurstReputationReplies : LookupReturns(1, reply)
  \/ \E uuid \in UUIDs : GuardResume(1, uuid)
  \/ \E up \in WideUpstreamReplies : UpstreamReturns(1, up)
  \/ Finish(1)
  \/ Tick

WideSpec == Init /\ [][WideNext]_vars

\* A long run: one handler at a time, every request from one address.
RunNext ==
  \/ \E r \in SeqShapes : Arrive(1, r, MaxRun)
  \/ \E reply \in BurstReputationReplies : LookupReturns(1, reply)
  \/ \E uuid \in UUIDs : GuardResume(1, uuid)
  \/ \E up \in BurstUpstreamReplies : UpstreamReturns(1, up)
  \/ Finish(1)
  \/ Tick

RunSpec == Init /\ [][RunNext]_vars

\* Every external call ends, and the event loop runs every continuation
\* that is ready.
FairSeqSpec ==
  /\ SeqSpec
  /\ WF_vars(\E reply \in ReputationReplies : LookupReturns(1, reply))
  /\ WF_vars(\E uuid \in UUIDs : GuardResume(1, uuid))
  /\ WF_vars(\E up \in UpstreamReplies : UpstreamReturns(1, up))
  /\ WF_vars(Finish(1))

\* ------------------------------------------------------------------------
\* Properties
\* ------------------------------------------------------------------------

\* guard has finished for the request of handler s
past(s) == pc[s] \in {"forward", "done"}

\* the reason of the first check, in the order 1 to 4, whose condition holds
firstReason(s) ==
  IF loc[s].bot THEN "bot"
  ELSE IF loc[s].isProxy THEN "vpn_proxy"
  ELSE IF loc[s].emulator THEN "emulator"
  ELSE IF loc[s].count > RateLimitMax THEN "rate_limit"
  ELSE ""

\* C1: the verdict of every request is the reason of the first check, in
\* the order bot, vpn_proxy, emulator, rate_limit, whose condition is true;
\* with no true condition the request is not suspicious and has no reason.
C1_FirstMatchWins ==
  \A s \in Slots :
    past(s) =>
      /\ loc[s].verdict.reason = firstReason(s)
      /\ loc[s].verdict.suspicious = (firstReason(s) # "")

\* a bot request whose address is also a proxy and is over the rate limit
C1_Witness ==
  \E s \in Slots :
    /\ past(s)
    /\ loc[s].bot
    /\ loc[s].isProxy
    /\ loc[s].count > RateLimitMax
    /\ loc[s].verdict.reason = "bot"

\* the client address a receiver reads off a forwarded-for header: its first
\* element, as detectClientIp reads it
firstOfChain(xff) == trim(split(xff, ",")[1])

chosenIp(s) == IF loc[s].verdict.suspicious THEN whiteUSIp(env) ELSE loc[s].ip

\* C2: the client address sent upstream is the substitute address when the
\* verdict is suspicious and the resolved client address otherwise;
\* CF-Connecting-IP, True-Client-IP and X-Real-IP carry it and it is the
\* first element of the outbound X-Forwarded-For.
C2_ClientIpSent ==
  \A s \in Slots :
    sent[s] # <<>> =>
      LET h == upstream(s).headers
      IN  /\ h.CF_Connecting_IP = chosenIp(s)
          /\ h.True_Client_IP = chosenIp(s)
          /\ h.X_Real_IP = chosenIp(s)
          /\ firstOfChain(h.X_Forwarded_For) = chosenIp(s)
          /\ loc[s].verdict.suspicious => h.X_Real_IP = whiteUSIp(env)
          /\ ~loc[s].verdict.suspicious => h.X_Real_IP = detectClientIp(req[s])

\* what does hold of the address sent: the three headers carry it, and it
\* is the first element of the outbound chain unless it is empty, when the
\* chain begins with an element of the incoming chain or is empty
ChosenIpSentUnlessEmpty ==
  \A s \in Slots :
    sent[s] # <<>> =>
      LET h == upstream(s).headers
      IN  /\ h.CF_Connecting_IP = chosenIp(s)
          /\ h.True_Client_IP = chosenIp(s)
          /\ h.X_Real_IP = chosenIp(s)
          /\ truthy(chosenIp(s)) => firstOfChain(h.X_Forwarded_For) = chosenIp(s)
          /\ ~truthy(chosenIp(s)) => ~loc[s].verdict.suspicious

\* C3: no verdict rejects a request: every request that entered guard
\* reaches the forwarder, makes exactly one upstream request and is
\* answered, when every external call ends.
C3_NeverRejected ==
  /\ \A s \in Slots :
       [](pc[s] \in {"fetch", "await"} =>
            <>(/\ pc[s] = "done"
               /\ res[s] # <<>>
               /\ sent[s] # <<>>
               /\ loc[s].upCalls = 1))
  /\ [](\A s \in Slots :
         /\ pc[s] \in {"idle", "fetch", "await", "forward", "done"}
         /\ pc[s] \in {"fetch", "await"} => loc[s].upCalls = 0 /\ sent[s] = <<>>
         /\ pc[s] \in {"forward", "done"} => loc[s].upCalls = 1 /\ sent[s] # <<>>)

\* a request flagged for its rate is answered like any other
C3_Witness ==
  \E s \in Slots :
    /\ pc[s] = "done"
    /\ loc[s].verdict.reason = "rate_limit"
    /\ res[s] # <<>>
    /\ loc[s].upCalls = 1

\* the request is the 6th of its burst and no earlier check flags it
sixthUnflagged(s) ==
  /\ loc[s].run >= RateLimitMax + 1
  /\ ~loc[s].bot /\ ~loc[s].isProxy /\ ~loc[s].emulator

\* C4 as stated: of two consecutive requests of one address whose
\* rate-limit steps are less than 2000 ms apart the second records a
\* greater count in every interleaving, and the 6th of such a run is flagged.
C4_AsStated ==
  \A s \in Slots :
    past(s) =>
      /\ loc[s].inWindow => loc[s].count > loc[s].prevCount
      /\ sixthUnflagged(s) => loc[s].verdict.reason = "rate_limit"

\* C4 amended: the second count is greater when no reputation lookup wrote
\* the address's entry between the two rate-limit steps, and the 6th request
\* of a run of such steps is flagged rate_limit when no earlier check
\* flagged it.
C4_CountGrowsUnlessLookupWrites ==
  \A s \in Slots :
    past(s) =>
      /\ loc[s].chained => loc[s].count > loc[s].prevCount
      /\ sixthUnflagged(s) =>
           loc[s].verdict.suspicious /\ loc[s].verdict.reason = "rate_limit"

C4_Witness ==
  \E s \in Slots :
    /\ past(s)
    /\ loc[s].chained
    /\ sixthUnflagged(s)
    /\ loc[s].verdict.reason = "rate_limit"

hasIsProxy(cache, ip) == ip \in DOMAIN cache /\ "isProxy" \in DOMAIN cache[ip]

\* C5: once the cache holds an isProxy for an address, a call of the lookup
\* for that address starts no request to the reputation service and
\* returns the boolean the cache holds at the call.
C5_CachedLookup ==
  /\ [][\A s \in Slots :
          (pc[s] = "idle" /\ pc'[s] # "idle" /\ hasIsProxy(ipCache, loc'[s].ip)) =>
            /\ pc'[s] = "await"
            /\ loc'[s].extCalls = 0
            /\ loc'[s].lookup \in {"cached", "empty"}
            /\ loc'[s].isProxy = ipCache[loc'[s].ip].isProxy]_vars
  /\ [][\A ip \in DOMAIN ipCache :
          hasIsProxy(ipCache, ip) => hasIsProxy(ipCache', ip)]_vars
  /\ [](\A s \in Slots : loc[s].lookup \in {"cached", "empty"} => loc[s].extCalls = 0)

\* a lookup answered from the cache with a positive result
C5_Witness ==
  \E s \in Slots :
    /\ pc[s] = "await"
    /\ loc[s].lookup = "cached"
    /\ loc[s].isProxy
    /\ loc[s].extCalls = 0

\* C6: a failed reputation call makes the lookup return false: the request
\* is not flagged vpn_proxy, the emulator and rate-limit checks still run,
\* and the entry is written with isProxy = false; an empty address returns
\* false with no external call and no cache write by the lookup.
C6_FailOpen ==
  /\ [](\A s \in Slots :
         /\ loc[s].lookup \in {"failed", "empty"} =>
              /\ ~loc[s].isProxy
              /\ pc[s] \in {"await", "forward", "done"}
              /\ loc[s].verdict.reason # "vpn_proxy"
         /\ loc[s].lookup = "empty" => loc[s].extCalls = 0
         /\ (past(s) /\ loc[s].lookup = "failed") =>
              /\ loc[s].count >= 1
              /\ (loc[s].emulator /\ ~loc[s].bot) => loc[s].verdict.reason = "emulator")
  /\ [][\A s \in Slots :
          /\ (loc[s].lookup # "failed" /\ loc'[s].lookup = "failed") =>
               /\ hasIsProxy(ipCache', loc[s].ip)
               /\ ~ipCache'[loc[s].ip].isProxy
          /\ (pc[s] = "idle" /\ pc'[s] # "idle" /\ loc'[s].ip = <<>>) =>
               /\ loc'[s].lookup = "empty"
               /\ ipCache' = ipCache]_vars

\* an emulator whose lookup failed is flagged as an emulator
C6_Witness ==
  \E s \in Slots :
    /\ past(s)
    /\ loc[s].lookup = "failed"
    /\ loc[s].verdict.reason = "emulator"
    /\ hasIsProxy(ipCache, loc[s].ip)

\* the log tag of each check
tagOf(reason) ==
  CASE reason = "bot" -> "BOT->WHITE"
    [] reason = "vpn_proxy" -> "VPN/PROXY->WHITE"
    [] reason = "emulator" -> "EMULATOR->WHITE"
    [] reason = "rate_limit" -> "RATE_LIMIT->WHITE"

\* the reasons of the checks whose condition holds for the request, in order
matching(s) ==
  (IF loc[s].bot THEN <<"bot">> ELSE <<>>)
    \o (IF loc[s].isProxy THEN <<"vpn_proxy">> ELSE <<>>)
    \o (IF loc[s].emulator THEN <<"emulator">> ELSE <<>>)
    \o (IF loc[s].count > RateLimitMax THEN <<"rate_limit">> ELSE <<>>)

tagsLogged(s) ==
  [i \in 1..Len(loc[s].verdict.logged) |-> loc[s].verdict.logged[i].tag]

C8_BotWhateverElse ==
  \A s, t \in Slots :
    (/\ past(s) /\ past(t)
     /\ loc[s].uaRaw = loc[t].uaRaw
     /\ (loc[s].uaRaw = <<>> \/ loc[s].uaRaw = UaGooglebot \/ loc[s].bot)) =>
      /\ loc[s].verdict.suspicious
      /\ loc[s].verdict.reason = "bot"
      /\ loc[t].verdict.suspicious = loc[s].verdict.suspicious
      /\ loc[t].verdict.reason = loc[s].verdict.reason

\* two bot requests that differ in address, lookup result and cache
C8_Witness ==
  \E s, t \in Slots :
    /\ past(s) /\ past(t)
    /\ loc[s].uaRaw = UaGooglebot /\ loc[t].uaRaw = UaGooglebot
    /\ loc[s].ip # loc[t].ip
    /\ loc[s].isProxy /\ ~loc[t].isProxy
    /\ loc[s].verdict.reason = "bot"

\* C9: a failure of the upstream fetch or of reading its body is answered
\* with status 200 and empty image_url and site_url; every answer has
\* exactly these two fields and no error status.
C9_FailSafe ==
  \A s \in Slots :
    pc[s] = "done" =>
      /\ res[s] # <<>>
      /\ res[s][1].status = 200
      /\ DOMAIN res[s][1].body = {"image_url", "site_url"}
      /\ loc[s].up \in {"throw", "textfail"} =>
           res[s][1].body = [image_url |-> <<>>, site_url |-> <<>>]

C9_Witness ==
  \E s \in Slots :
    /\ pc[s] = "done"
    /\ loc[s].up = "textfail"
    /\ res[s][1].body = [image_url |-> <<>>, site_url |-> <<>>]

\* C10: the user-agent sent upstream is the original when the request is not
\* suspicious; empty when it is suspicious and the mode is empty; the
\* original followed by " bot" when it is suspicious, the mode is suffix and
\* the original is not empty; and "bot" when the original is empty.
C10_UserAgentSent ==
  \A s \in Slots :
    sent[s] # <<>> =>
      LET ua == upstream(s).headers.User_Agent
          orig == loc[s].uaRaw
          suspicious == loc[s].verdict.suspicious
          mode == whiteUaMode(env)
      IN  /\ ~suspicious => ua = orig
          /\ (suspicious /\ mode = <<"e","m","p","t","y">>) => ua = <<>>
          /\ (suspicious /\ mode = <<"s","u","f","f","i","x">> /\ orig # <<>>) => ua = orig \o <<" ","b","o","t">>
          /\ (suspicious /\ mode = <<"s","u","f","f","i","x">> /\ orig = <<>>) => ua = <<"b","o","t">>

\* a suspicious request with a user-agent is sent with none in mode empty
C10_Witness ==
  \E s \in Slots :
    /\ sent[s] # <<>>
    /\ loc[s].verdict.suspicious
    /\ whiteUaMode(env) = <<"e","m","p","t","y">>
    /\ loc[s].uaRaw # <<>>
    /\ upstream(s).headers.User_Agent = <<>>

\* the upstream response of handler s came from another url than the one
\* requested
redirected(s) ==
  /\ loc[s].reply[1].kind = "response"
  /\ truthy(loc[s].reply[1].url)
  /\ loc[s].reply[1].url # KEITARO_URL(env)

\* C11: a response whose final url differs from the requested url is
\* answered with an empty image_url and the final url as site_url, whatever
\* its body; any other outcome with an empty site_url and an image_url that
\* is empty unless a body was read and holds an image; at most one of the
\* two fields is non-empty.
C11_RedirectOrImage ==
  \A s \in Slots :
    pc[s] = "done" =>
      LET up == loc[s].reply[1]
          body == res[s][1].body
      IN  /\ redirected(s) => body = [image_url |-> <<>>, site_url |-> up.url]
          /\ ~redirected(s) =>
               /\ body.site_url = <<>>
               /\ truthy(body.image_url) =>
                    /\ up.kind = "response" /\ up.textOk
                    /\ includes(up.html, <<"<","i","m","g">>)
                    /\ body.image_url = extractImageUrl(up.html, KEITARO_URL(env))
          /\ ~(truthy(body.image_url) /\ truthy(body.site_url))

\* a redirected response whose body holds an image is answered with the
\* final url only
C11_Witness ==
  \E s \in Slots :
    /\ pc[s] = "done"
    /\ redirected(s)
    /\ includes(loc[s].reply[1].html, <<"<","i","m","g">>)
    /\ res[s][1].body = [image_url |-> <<>>, site_url |-> <<"h","t","t","p","s",":","/","/","e","x","a","m","p","l","e",".","c","o","m","/","x">>]

\* the text of the first <img tag of html, up to its closing >; empty when
\* there is no <img
firstImgTag(html) ==
  LET i == indexOf(html, <<"<","i","m","g">>, 0)
      e == indexOf(html, <<">">>, i)
  IN  IF i = -1 THEN <<>>
      ELSE substring(html, i, IF e = -1 THEN Len(html) ELSE e)

\* the quoted value of the src attribute of a tag: <<>> when the tag has no
\* src=, no quote after it or no closing quote, else <<value>>
quotedSrc(tag) ==
  LET k == indexOf(tag, <<"s","r","c","=">>, 0)
      q == IF k # -1 /\ k + 4 < Len(tag) THEN tag[k + 5] ELSE ""
      c == indexOf(tag, <<q>>, k + 5)
  IN  IF k = -1 \/ q \notin {"\"", "'"} \/ c = -1 THEN <<>>
      ELSE <<substring(tag, k + 5, c)>>

\* C12: a body with missing or malformed image markup (no <img tag, an
\* <img tag with no src of its own, a src value with no closing quote, an
\* unquoted src value) is answered with an empty image_url: image_url is
\* non-empty only when the first <img tag has a quoted src value.
C12_MalformedGivesEmpty ==
  \A s \in Slots :
    (pc[s] = "done" /\ loc[s].up = "html") =>
      (quotedSrc(firstImgTag(loc[s].reply[1].html)) = <<>> =>
         res[s][1].body.image_url = <<>>)

\* what does hold of the image markup: a body with no <img, or with no
\* src= after its first <img, is answered with an empty image_url, and a
\* relative quoted src of the first <img is answered under /lander/
MissingMarkupGivesEmpty ==
  \A s \in Slots :
    (pc[s] = "done" /\ loc[s].up = "html") =>
      LET html == loc[s].reply[1].html
          src == quotedSrc(firstImgTag(html))
          image == res[s][1].body.image_url
      IN  /\ (~includes(html, <<"<","i","m","g">>) \/ indexOf(html, <<"s","r","c","=">>, indexOf(html, <<"<","i","m","g">>, 0)) = -1)
               => image = <<>>
          /\ (src # <<>> /\ truthy(trim(src[1])) /\ ~isAbsoluteHttp(trim(src[1]))) =>
               image = urlOrigin(KEITARO_URL(env)) \o <<"/","l","a","n","d","e","r","/">> \o LANDER_NAME
                         \o <<"/">> \o stripLeadingSlashes(trim(src[1]))
          /\ (src # <<>> /\ isAbsoluteHttp(trim(src[1]))) => image = trim(src[1])

\* the text of a chain before its first comma, trimmed
headOfChain(xff) ==
  LET c == indexOf(xff, <<",">>, 0)
  IN  trim(substring(xff, 0, IF c = -1 THEN Len(xff) ELSE c))

\* an address with a leading ::ffff: removed and white space trimmed
unmapped(ip) ==
  trim(IF startsWith(ip, IPv4MappedPrefix)
         THEN substring(ip, Len(IPv4MappedPrefix), Len(ip)) ELSE ip)

guardEnds(s) == pc[s] = "await" /\ pc'[s] = "forward"

\* C14: whatever the verdict, guard has called the lookup and, when it
\* ends, the entry of the resolved address has last = the time of this
\* request and count = the count it had plus 1 when its last was less than
\* 2000 ms ago, else 1; so a request already flagged still counts.
C14_RateStepAlwaysRuns ==
  /\ [][\A s \in Slots :
          guardEnds(s) =>
            LET ip == loc[s].ip
                had == ip \in DOMAIN ipCache
            IN  /\ ip \in DOMAIN ipCache'
                /\ ipCache'[ip].last = now
                /\ ipCache'[ip].count =
                     IF had /\ now - ipCache[ip].last < BurstWindowMs
                       THEN ipCache[ip].count + 1 ELSE 1
                /\ loc'[s].count = ipCache'[ip].count
                /\ loc[s].lookup # "none"]_vars
  /\ [](\A s \in Slots : past(s) => loc[s].lookup # "none" /\ loc[s].count >= 1)

\* the second of two bot requests from one address is counted as the second
C14_Witness ==
  \E s \in Slots :
    /\ past(s)
    /\ loc[s].verdict.reason = "bot"
    /\ loc[s].lookup = "cached"
    /\ loc[s].count = 2
    /\ ipCache[loc[s].ip].count = 2

\* the lookup of handler s completes in this step
lookupCompletes(s) == pc[s] = "fetch" /\ pc'[s] = "await"

\* C15 as stated: the write of a completing lookup leaves the entry's count
\* as it was immediately before the write (0 when there was no entry), in
\* every interleaving.
C15_AsStated ==
  [][\A s \in Slots :
       lookupCompletes(s) =>
         ipCache'[loc[s].ip].count =
           IF loc[s].ip \in DOMAIN ipCache THEN ipCache[loc[s].ip].count ELSE 0]_vars

\* C15 amended: the write sets isProxy to the result, last to the time of
\* the write and count to the count the entry had when the lookup was
\* called, before its fetch (0 when there was no entry then); this is the
\* count immediately before the write when there is still no entry; no
\* other address's entry changes.
C15_CountAsReadAtCall ==
  [][\A s \in Slots :
       lookupCompletes(s) =>
         LET ip == loc[s].ip IN
         /\ ipCache'[ip] =
              [ isProxy |-> loc'[s].isProxy,
                last |-> now,
                count |-> IF loc[s].cached # <<>> THEN loc[s].cached[1].count ELSE 0 ]
         /\ ip \notin DOMAIN ipCache => ipCache'[ip].count = 0
         /\ \A other \in DOMAIN ipCache' \ {ip} :
              other \in DOMAIN ipCache /\ ipCache'[other] = ipCache[other]]_vars

\* a lookup that was in flight while another request of its address was
\* counted has put the count back to 0
C15_Witness ==
  \E s \in Slots :
    /\ pc[s] = "await"
    /\ loc[s].lookup \in {"fetched", "failed"}
    /\ loc[s].ip \in DOMAIN rateSeen
    /\ rateSeen[loc[s].ip].count >= 1
    /\ ~rateSeen[loc[s].ip].clean
    /\ ipCache[loc[s].ip].count = 0

\* C16 as stated: every entry of the cache has count >= 1 and has last set.
C16_AsStated ==
  \A ip \in DOMAIN ipCache :
    /\ "last" \in DOMAIN ipCache[ip]
    /\ ipCache[ip].count >= 1

\* C16 amended: every entry has last set to a time of the clock and a
\* count >= 0; the count is 0 only while the latest write to the entry is
\* that of a lookup, until the next rate-limit step for the address; once
\* a rate-limit step has written the entry, and until a lookup writes it,
\* the count is the one that step recorded and is >= 1.
C16_ZeroOnlyAfterLookup ==
  \A ip \in DOMAIN ipCache :
    /\ DOMAIN ipCache[ip] = {"isProxy", "last", "count"}
    /\ ipCache[ip].last \in StartMs..now
    /\ ipCache[ip].count >= 0
    /\ ipCache[ip].count = 0 => (ip \notin DOMAIN rateSeen \/ ~rateSeen[ip].clean)
    /\ (ip \in DOMAIN rateSeen /\ rateSeen[ip].clean) =>
         /\ ipCache[ip].count = rateSeen[ip].count
         /\ ipCache[ip].count >= 1

\* the first request of an address, between the end of its lookup and its
\* rate-limit step: the entry has count 0
C16_Witness ==
  \E s \in Slots :
    /\ pc[s] = "await"
    /\ loc[s].lookup = "fetched"
    /\ loc[s].ip \notin DOMAIN rateSeen
    /\ ipCache[loc[s].ip].count = 0
    /\ ipCache[loc[s].ip].last = now

\* the isProxy of the entry of ip appears or changes in this step
isProxyWritten(ip) ==
  \/ ip \notin DOMAIN ipCache
  \/ ipCache'[ip].isProxy # ipCache[ip].isProxy

\* C17 as stated: the isProxy of an entry is the result of the most recent
\* successful lookup for its address and is absent before one has completed:
\* an isProxy appears or changes only when a lookup for the address
\* succeeds, and then it is that lookup's result (stated of the addresses
\* that are not empty).
C17_AsStated ==
  [][\A ip \in DOMAIN ipCache' :
       (ip # <<>> /\ isProxyWritten(ip)) =>
         \E s \in Slots :
           /\ lookupCompletes(s) /\ loc[s].ip = ip
           /\ loc'[s].lookup = "fetched"
           /\ ipCache'[ip].isProxy = loc'[s].isProxy]_vars

\* C17 amended: the isProxy of an entry is what the most recent completed
\* lookup for its address returned, which is false for a failed lookup; the
\* rate-limit step never changes the isProxy of an entry, and makes an
\* entry with isProxy = false only for the empty address, for which no
\* lookup is made; a non-empty address has no entry before a lookup for it
\* has completed.
C17_IsProxyOfLatestLookup ==
  [][/\ \A ip \in DOMAIN ipCache' :
          isProxyWritten(ip) =>
            \/ \E s \in Slots :
                 /\ lookupCompletes(s) /\ loc[s].ip = ip
                 /\ ipCache'[ip].isProxy = loc'[s].isProxy
            \/ ip = <<>> /\ ip \notin DOMAIN ipCache /\ ~ipCache'[ip].isProxy
     /\ \A s \in Slots :
          lookupCompletes(s) =>
            /\ ipCache'[loc[s].ip].isProxy = loc'[s].isProxy
            /\ loc'[s].lookup = "failed" => ~ipCache'[loc[s].ip].isProxy]_vars

\* a failed lookup has written isProxy = false for an address that had no
\* entry
C17_Witness ==
  \E s \in Slots :
    /\ pc[s] = "await"
    /\ loc[s].lookup = "failed"
    /\ loc[s].ip \notin DOMAIN rateSeen
    /\ hasIsProxy(ipCache, loc[s].ip)
    /\ ~ipCache[loc[s].ip].isProxy

\* the elements of a chain: the pieces between its commas, trimmed
elements(xff) ==
  LET raw == split(xff, ",") IN [i \in 1..Len(raw) |-> trim(raw[i])]

\* how many times e occurs in a sequence
occurrences(seq, e) == Cardinality({i \in DOMAIN seq : seq[i] = e})

\* the chain as stated: the chosen address, then the non-blank entries of the
\* incoming chain that are neither the chosen address nor "unknown"
statedChain(s) ==
  LET keep(e) == e # chosenIp(s) /\ e # <<"u","n","k","n","o","w","n">>
  IN  <<chosenIp(s)>> \o SelectSeq(incomingParts(req[s]), keep)

\* C18: the outbound chain is the chosen address followed by the incoming
\* chain's trimmed non-empty entries in their order, without those equal to
\* the chosen address and without "unknown": the chosen address occurs once,
\* in first position, and "unknown" never occurs.
C18_ChainAsStated ==
  \A s \in Slots :
    sent[s] # <<>> =>
      LET chain == elements(upstream(s).headers.X_Forwarded_For)
      IN  /\ chain = statedChain(s)
          /\ chain[1] = chosenIp(s)
          /\ occurrences(chain, chosenIp(s)) = 1
          /\ occurrences(chain, <<"u","n","k","n","o","w","n">>) = 0

\* what does hold of the chain: it is as stated whenever the chosen address
\* is not empty, and is the stated chain without its first element when it is
ChainAsStatedUnlessEmpty ==
  \A s \in Slots :
    sent[s] # <<>> =>
      LET chain == elements(upstream(s).headers.X_Forwarded_For)
      IN  /\ occurrences(chain, <<"u","n","k","n","o","w","n">>) = 0
          /\ truthy(chosenIp(s)) =>
               /\ chain = statedChain(s)
               /\ occurrences(chain, chosenIp(s)) = 1
          /\ (~truthy(chosenIp(s)) /\ Len(statedChain(s)) > 1) =>
               chain = Tail(statedChain(s))

\* the request of handler s is suspicious and its resolved address is a
\* real one, other than the substitute
cloaked(s) ==
  /\ sent[s] # <<>>
  /\ loc[s].verdict.suspicious
  /\ truthy(loc[s].ip)
  /\ loc[s].ip # whiteUSIp(env)

\* C19 as stated: the real address of a suspicious request occurs in no
\* outbound header: not in CF-Connecting-IP, True-Client-IP, X-Real-IP, nor
\* anywhere in the X-Forwarded-For chain.
C19_AsStated ==
  \A s \in Slots :
    cloaked(s) =>
      LET h == upstream(s).headers
      IN  /\ h.CF_Connecting_IP # loc[s].ip
          /\ h.True_Client_IP # loc[s].ip
          /\ h.X_Real_IP # loc[s].ip
          /\ occurrences(elements(h.X_Forwarded_For), loc[s].ip) = 0

\* C19 amended: the real address of a suspicious request is not in
\* CF-Connecting-IP, True-Client-IP or X-Real-IP and is not the first
\* element of the chain, which is the substitute; it is in the chain, after
\* the substitute, exactly when the incoming chain held it.
C19_RealIpOnlyInChain ==
  \A s \in Slots :
    cloaked(s) =>
      LET h == upstream(s).headers
          chain == elements(h.X_Forwarded_For)
          incoming == incomingParts(req[s])
      IN  /\ h.CF_Connecting_IP = whiteUSIp(env)
          /\ h.True_Client_IP = whiteUSIp(env)
          /\ h.X_Real_IP = whiteUSIp(env)
          /\ chain[1] = whiteUSIp(env)
          /\ occurrences(chain, loc[s].ip) > 0 => occurrences(incoming, loc[s].ip) > 0
          /\ (occurrences(incoming, loc[s].ip) > 0 /\ loc[s].ip # <<"u","n","k","n","o","w","n">>) =>
               occurrences(chain, loc[s].ip) = occurrences(incoming, loc[s].ip)

\* a bot behind a forwarding chain: its own address goes upstream as the
\* second element of the chain
C19_Witness ==
  \E s \in Slots :
    /\ cloaked(s)
    /\ loc[s].ip = IpB
    /\ Len(elements(upstream(s).headers.X_Forwarded_For)) >= 2
    /\ elements(upstream(s).headers.X_Forwarded_For)[2] = IpB
    /\ upstream(s).headers.X_Real_IP = whiteUSIp(env)

\* C20: in a run of requests of one address, one at a time, each counted
\* less than 2000 ms after the one before, every request from the 6th on
\* is suspicious, and is flagged rate_limit when no earlier check flags it,
\* however long the run; the count is 1 only for a request counted 2000 ms
\* or more after the one before (or with none before), and that request is
\* not flagged rate_limit.
C20_FlaggedWhileRunLasts ==
  \A s \in Slots :
    past(s) =>
      /\ loc[s].run > RateLimitMax =>
           /\ loc[s].verdict.suspicious
           /\ loc[s].count > RateLimitMax
           /\ sixthUnflagged(s) => loc[s].verdict.reason = "rate_limit"
      /\ loc[s].count = loc[s].run
      /\ loc[s].count = 1 <=> ~loc[s].inWindow
      /\ ~loc[s].inWindow => loc[s].verdict.reason # "rate_limit"

\* the request after the 6th of a run is flagged too
C20_Witness ==
  \E s \in Slots :
    /\ past(s)
    /\ loc[s].run > RateLimitMax + 1
    /\ loc[s].verdict.reason = "rate_limit"
====
